---- MODULE Spec2Model ----
(***************************************************************************)
(* Verification model of the ninjatab settlement engine:                   *)
(*   tabs/exchange.py  rate lookup and currency conversion                 *)
(*   tabs/simp.py      balance aggregation and greedy simplification       *)
(*   tabs/api.py       the request handlers that feed and persist them     *)
(*                                                                         *)
(* Money is an integer number of half cents (one unit = 0.005), so that a  *)
(* Decimal with more than two fraction digits is representable and         *)
(* quantize(Decimal('0.01')) is not the identity.  A value stored in a     *)
(* DecimalField(decimal_places=2) is a multiple of Epsilon.                *)
(* An optional value (None / NULL) is the empty tuple, a present value v   *)
(* is the one-element tuple <<v>>.                                         *)
(***************************************************************************)
EXTENDS Integers, Sequences, FiniteSets, TLC

VARIABLES
    balances,       \* simp: the argument, a list of Balance(person_id, balance)
    bals,           \* simp: the working dict, in insertion order
    transactions,   \* simp: the list of Transaction emitted so far
    pc,             \* simp: "idle", "call", "loop", "done", "KeyError"
    bills,          \* the tab's Bill rows with their line items and claims, oldest first
    rates,          \* the ExchangeRate table
    now,            \* timezone.now()
    settlement_currency,    \* Tab.settlement_currency
    settlements,    \* the tab's Settlement rows, oldest first
    requests,       \* the simplify_tab requests being served, each with its open transaction
    response        \* what the last call returned or raised

simpVars == <<balances, bals, transactions, pc>>

dbVars == <<bills, rates, now, settlement_currency, settlements>>

vars ==
    <<balances, bals, transactions, pc, bills, rates, now, settlement_currency, settlements,
      requests, response>>

\* Decimal('0.01') of simp.py, in half cents.
Epsilon == 2

\* the precision of the decimal context in which exchange.py divides and multiplies
Prec == 28

\* ---------------------------------------------------------------- bounds
MaxPeople == 4      \* longest balance list handed to simp
MaxBal == 3         \* largest |balance| handed to simp, in half cents
LoopSlack == 2      \* iterations explored beyond one per person
MaxTime == 2        \* the clock runs from 0 to MaxTime
MaxRates == 3       \* most ExchangeRate rows in the table
NumPeople == 2      \* TabPerson rows of the tab
MaxBills == 2       \* most Bill rows of the tab
MaxLineItems == 1   \* most line items in a create_bill payload
MaxSplits == 2      \* most person_splits given for a line item
MaxBatch == 3       \* people of the tab whose splits are recorded call by call, and its longest batch
MaxRequests == 2    \* simplify_tab requests served at the same time

MaxIter == MaxPeople + LoopSlack

\* ---------------------------------------------------------------- helpers
Abs(x) == IF x < 0 THEN -x ELSE x

Min(a, b) == IF a <= b THEN a ELSE b

RECURSIVE SumSeq(_)
SumSeq(s) == IF s = <<>> THEN 0 ELSE Head(s) + SumSeq(Tail(s))

\* n/d rounded to an integer, ties to the even neighbour (ROUND_HALF_EVEN, the
\* rounding of the default decimal context); d > 0
RoundHalfEven(n, d) ==
    LET q == n \div d
        r == n % d
    IN  IF 2 * r < d THEN q
        ELSE IF 2 * r > d THEN q + 1
        ELSE IF q % 2 = 0 THEN q ELSE q + 1

\* (n/d).quantize(Decimal('0.01')): n/d half cents rounded to whole cents
Quantize(n, d) == Epsilon * RoundHalfEven(n, d * Epsilon)

NoResponse == [op |-> "none"]

\* the state of the parts a specification leaves alone
SimpIdle ==
    /\ balances = <<>>
    /\ bals = <<>>
    /\ transactions = <<>>
    /\ pc = "idle"

DbEmpty ==
    /\ bills = <<>>
    /\ rates = {}
    /\ now = 0
    /\ settlement_currency = "GBP"
    /\ settlements = <<>>
    /\ requests = <<>>

\* ================================================================ models.py, exchange.py
Currencies == {"USD", "GBP"}

\* A rate is the fraction <<numerator, denominator>>.  Decimal('1.0') / rate is
\* rounded to the significant digits of the decimal context; the rates below
\* are those whose reciprocal terminates, for which the quotient is exact.
RateValues == {<<0, 1>>, <<1, 2>>, <<2, 1>>}

Dates == 0..MaxTime

ExchangeRate(from, to, rate, date) ==
    [from_currency |-> from, to_currency |-> to, rate |-> rate, effective_date |-> date]

\* the rows the admin site is given to save
ExchangeRateRows ==
    {row \in {ExchangeRate(f, t, r, d) :
                 f \in Currencies, t \in Currencies, r \in RateValues, d \in Dates} :
        row.from_currency # row.to_currency}

\* ExchangeRate.Meta.unique_together
UniqueTogether(table) ==
    \A r \in table, q \in table :
        (/\ r.from_currency = q.from_currency
         /\ r.to_currency = q.to_currency
         /\ r.effective_date = q.effective_date) => r = q

FilterAnyDate(table, from, to, as_of) ==
    {r \in table : r.from_currency = from /\ r.to_currency = to}

\* ExchangeRate.objects.filter(from_currency=, to_currency=, effective_date__lte=)
Filter(table, from, to, as_of) ==
    {r \in table : r.from_currency = from /\ r.to_currency = to /\ r.effective_date <= as_of}

\* QuerySet.first() under Meta.ordering = ['-effective_date']: None or the newest row
First(qs) ==
    IF qs = {} THEN <<>>
    ELSE <<CHOOSE r \in qs : \A q \in qs : q.effective_date <= r.effective_date>>

\* ---------------------------------------------------------------- Decimal arithmetic
\* A quotient that does not terminate is rounded to the Prec significant
\* digits of the decimal context.  Such a Decimal is the tuple
\* <<"Decimal", coefficient, exponent>> of value coefficient * 10^exponent, the
\* coefficient a sequence of digits, most significant first.

\* n has no prime factor but 2 and 5: 1/n terminates; n > 0
RECURSIVE Terminates(_)
Terminates(n) ==
    IF n % 2 = 0 THEN Terminates(n \div 2)
    ELSE IF n % 5 = 0 THEN Terminates(n \div 5)
    ELSE n = 1

\* p/q scaled by a power of ten into [1, 10): <<p', q', e>> with
\* p/q = (p'/q') * 10^e; p > 0, q > 0
RECURSIVE Normalise(_, _, _)
Normalise(p, q, e) ==
    IF p < q THEN Normalise(10 * p, q, e - 1)
    ELSE IF p >= 10 * q THEN Normalise(p, 10 * q, e + 1)
    ELSE <<p, q, e>>

\* the next k digits of rem/q after the point; rem < q
RECURSIVE LongDivision(_, _, _)
LongDivision(rem, q, k) ==
    IF k = 0 THEN <<>>
    ELSE <<(10 * rem) \div q>> \o LongDivision((10 * rem) % q, q, k - 1)

\* what is left of rem after those k digits
RECURSIVE RemainderAfter(_, _, _)
RemainderAfter(rem, q, k) ==
    IF k = 0 THEN rem ELSE RemainderAfter((10 * rem) % q, q, k - 1)

Front(s) == SubSeq(s, 1, Len(s) - 1)

Last(s) == s[Len(s)]

\* the digit string plus one in its last place
RECURSIVE Increment(_)
Increment(s) ==
    IF s = <<>> THEN <<1>>
    ELSE IF Last(s) = 9 THEN Increment(Front(s)) \o <<0>>
    ELSE Front(s) \o <<Last(s) + 1>>

\* the digit string without its last t digits, rounded half-even
RoundDrop(s, t) ==
    IF t <= 0 THEN s
    ELSE IF t > Len(s) THEN <<>>
    ELSE LET kept == SubSeq(s, 1, Len(s) - t)
             first == s[Len(s) - t + 1]
             rest == \E i \in (Len(s) - t + 2)..Len(s) : s[i] # 0
             odd == kept # <<>> /\ Last(kept) % 2 = 1
         IN  IF first > 5 \/ (first = 5 /\ (rest \/ odd)) THEN Increment(kept) ELSE kept

\* p/q to Prec significant digits; p > 0, q > 0
Divide(p, q) ==
    LET n == Normalise(p, q, 0)
        digits == <<n[1] \div n[2]>> \o LongDivision(n[1] % n[2], n[2], Prec - 1)
        rem == RemainderAfter(n[1] % n[2], n[2], Prec - 1)
        up == 2 * rem > n[2] \/ (2 * rem = n[2] /\ Last(digits) % 2 = 1)
    IN  <<"Decimal", IF up THEN Increment(digits) ELSE digits, n[3] - (Prec - 1)>>

RECURSIVE DigitsOf(_)
DigitsOf(n) == IF n = 0 THEN <<>> ELSE DigitsOf(n \div 10) \o <<n % 10>>

RECURSIVE ToInt(_)
ToInt(s) == IF s = <<>> THEN 0 ELSE 10 * ToInt(Front(s)) + Last(s)

\* the digit string times k, k > 0
RECURSIVE MulCarry(_, _, _)
MulCarry(s, k, carry) ==
    IF s = <<>> THEN DigitsOf(carry)
    ELSE LET v == Last(s) * k + carry
         IN  MulCarry(Front(s), k, v \div 10) \o <<v % 10>>

\* (amount * rate).quantize(Decimal('0.01')) for a rate held as digits: the
\* product is rounded to Prec digits, then to whole cents.  amount half cents
\* are the Decimal 5 * amount * 10^-3.
QuantizeProduct(amount, rate) ==
    IF amount = 0 THEN 0
    ELSE LET exact == MulCarry(rate[2], 5 * Abs(amount), 0)
             excess == IF Len(exact) > Prec THEN Len(exact) - Prec ELSE 0
             product == RoundDrop(exact, excess)
             exponent == rate[3] - 3 + excess
             cents == IF exponent + 2 >= 0
                      THEN ToInt(product \o [i \in 1..(exponent + 2) |-> 0])
                      ELSE ToInt(RoundDrop(product, -(exponent + 2)))
         IN  (IF amount < 0 THEN -1 ELSE 1) * Epsilon * cents

Unquantized(amount, rate) ==
    IF Len(rate) = 3 THEN QuantizeProduct(amount, rate)
    ELSE (amount * rate[1]) \div rate[2]

\* amount * rate quantized, for either kind of rate
Multiply(amount, rate) ==
    IF Len(rate) = 3 THEN QuantizeProduct(amount, rate)
    ELSE Quantize(amount * rate[1], rate[2])

\* Decimal('1.0') / rate: the exact fraction when the quotient terminates
Reciprocal(rate) ==
    IF Terminates(rate[1]) THEN <<rate[2], rate[1]>> ELSE Divide(rate[2], rate[1])

Returned(v) == [raised |-> FALSE, value |-> v]

Raised(e) == [raised |-> TRUE, error |-> e]

ExchangeRateNotFoundError == Raised("ExchangeRateNotFoundError")

InverseFirst(table, clock, from_currency, to_currency, as_of_date) ==
    IF from_currency = to_currency THEN Returned(<<1, 1>>)
    ELSE LET as_of == IF as_of_date = <<>> THEN clock ELSE as_of_date[1]
             direct == First(Filter(table, from_currency, to_currency, as_of))
             inverse == First(Filter(table, to_currency, from_currency, as_of))
         IN  IF inverse # <<>> /\ inverse[1].rate[1] # 0 THEN Returned(Reciprocal(inverse[1].rate))
             ELSE IF direct # <<>> THEN Returned(direct[1].rate)
             ELSE ExchangeRateNotFoundError

LookupWithoutShortcut(table, clock, from_currency, to_currency, as_of_date) ==
    LET as_of == IF as_of_date = <<>> THEN clock ELSE as_of_date[1]
        direct == First(Filter(table, from_currency, to_currency, as_of))
        inverse == First(Filter(table, to_currency, from_currency, as_of))
    IN  IF direct # <<>> THEN Returned(direct[1].rate)
        ELSE IF inverse # <<>> /\ inverse[1].rate[1] # 0
             THEN Returned(Reciprocal(inverse[1].rate))
        ELSE ExchangeRateNotFoundError

\* get_latest_exchange_rate, reading the table as it is at time clock
get_latest_exchange_rate(table, clock, from_currency, to_currency, as_of_date) ==
    IF from_currency = to_currency THEN Returned(<<1, 1>>)
    ELSE LET as_of == IF as_of_date = <<>> THEN clock ELSE as_of_date[1]
             direct == First(Filter(table, from_currency, to_currency, as_of))
             inverse == First(Filter(table, to_currency, from_currency, as_of))
         IN  IF direct # <<>> THEN Returned(direct[1].rate)
             ELSE IF inverse # <<>> /\ inverse[1].rate[1] # 0
                  THEN Returned(Reciprocal(inverse[1].rate))
             ELSE ExchangeRateNotFoundError

ConvertOrKeep(table, clock, amount, from_currency, to_currency, as_of_date) ==
    IF from_currency = to_currency THEN Returned(Quantize(amount, 1))
    ELSE LET rate == get_latest_exchange_rate(table, clock, from_currency, to_currency, as_of_date)
         IN  IF rate.raised THEN Returned(Quantize(amount, 1))
             ELSE Returned(Multiply(amount, rate.value))

\* convert_amount
convert_amount(table, clock, amount, from_currency, to_currency, as_of_date) ==
    IF from_currency = to_currency THEN Returned(Quantize(amount, 1))
    ELSE LET rate == get_latest_exchange_rate(table, clock, from_currency, to_currency, as_of_date)
         IN  IF rate.raised THEN ExchangeRateNotFoundError
             ELSE Returned(Multiply(amount, rate.value))

\* ---------------------------------------------------------------- the rate table over time
\* the admin site saves a new ExchangeRate row; a duplicate of
\* (from_currency, to_currency, effective_date) is refused by the database
AddExchangeRate(row) ==
    /\ pc = "idle"
    /\ Cardinality(rates) < MaxRates
    /\ UniqueTogether(rates \cup {row})
    /\ rates' = rates \cup {row}
    /\ response' = NoResponse
    /\ UNCHANGED <<simpVars, requests, bills, now, settlement_currency, settlements>>

\* time passes
Tick ==
    /\ pc = "idle"
    /\ now < MaxTime
    /\ now' = now + 1
    /\ response' = NoResponse
    /\ UNCHANGED <<simpVars, requests, bills, rates, settlement_currency, settlements>>

\* a call of get_latest_exchange_rate
RateLookup(from, to, as_of_date) ==
    /\ pc = "idle"
    /\ response' = [op |-> "get_latest_exchange_rate",
                    from_currency |-> from, to_currency |-> to,
                    as_of |-> IF as_of_date = <<>> THEN now ELSE as_of_date[1],
                    result |-> get_latest_exchange_rate(rates, now, from, to, as_of_date)]
    /\ UNCHANGED <<simpVars, requests, dbVars>>

InitRate ==
    /\ SimpIdle
    /\ DbEmpty
    /\ response = NoResponse

NextRate ==
    \/ \E row \in ExchangeRateRows : AddExchangeRate(row)
    \/ Tick
    \/ \E from \in Currencies, to \in Currencies, as_of_date \in {<<>>} \cup {<<d>> : d \in Dates} :
          RateLookup(from, to, as_of_date)

SpecRate == InitRate /\ [][NextRate]_vars

\* ---------------------------------------------------------------- conversions
\* the rates saved while amounts are converted: zero, one whose reciprocal
\* terminates (0.5) and one whose reciprocal does not (6)
ConvertRateValues == {<<0, 1>>, <<1, 2>>, <<6, 1>>}

\* effective at the start or at the end of the period
ConvertDates == {0, MaxTime}

ConvertRateRows ==
    {row \in {ExchangeRate(f, t, r, d) :
                 f \in Currencies, t \in Currencies, r \in ConvertRateValues,
                 d \in ConvertDates} :
        row.from_currency # row.to_currency}

\* the amounts converted, in half cents: -0.015, 0, 0.005, 0.015, 0.03, 0.15
ConvertAmounts == {-3, 0, 1, 3, 6, 30}

OptionalDates == {<<>>} \cup {<<d>> : d \in Dates}

\* a call of convert_amount
ConvertAmount(amount, from, to, as_of_date) ==
    /\ pc = "idle"
    /\ response' = [op |-> "convert_amount", amount |-> amount,
                    from_currency |-> from, to_currency |-> to,
                    as_of |-> IF as_of_date = <<>> THEN now ELSE as_of_date[1],
                    result |-> convert_amount(rates, now, amount, from, to, as_of_date)]
    /\ UNCHANGED <<simpVars, requests, dbVars>>

InitConvert ==
    /\ SimpIdle
    /\ DbEmpty
    /\ response = NoResponse

NextConvert ==
    \/ \E row \in ConvertRateRows : AddExchangeRate(row)
    \/ \E amount \in ConvertAmounts, from \in Currencies, to \in Currencies,
          as_of_date \in OptionalDates :
          ConvertAmount(amount, from, to, as_of_date)

SpecConvert == InitConvert /\ [][NextConvert]_vars

\* ================================================================ simp.py
Balance(pid, bal) == [person_id |-> pid, balance |-> bal]

Transaction(payer, payee, amt) == [payer_id |-> payer, payee_id |-> payee, amount |-> amt]

\* {b.person_id: b.balance for b in balances if b.balance != 0}
BuildBals(bs) == SelectSeq(bs, LAMBDA b : b.balance # 0)

Keys(d) == {d[i].person_id : i \in DOMAIN d}

IndexOf(d, pid) == CHOOSE i \in DOMAIN d : d[i].person_id = pid

\* bals[pid]
Get(d, pid) == d[IndexOf(d, pid)].balance

\* bals[pid] = v for a key already present: the key keeps its position
Put(d, pid, v) == [i \in DOMAIN d |-> IF d[i].person_id = pid THEN Balance(pid, v) ELSE d[i]]

\* del bals[pid]
Del(d, pid) == SelectSeq(d, LAMBDA b : b.person_id # pid)

LowestIdCreditor(d) ==
    CHOOSE p \in Keys(d) :
        /\ \A j \in DOMAIN d : d[j].balance <= Get(d, p)
        /\ \A q \in Keys(d) : Get(d, q) = Get(d, p) => p <= q

\* max(bals, key=bals.get): the first key, in iteration order, of maximal value
max_creditor(d) ==
    d[CHOOSE i \in DOMAIN d :
        /\ \A j \in DOMAIN d : d[j].balance <= d[i].balance
        /\ \A j \in DOMAIN d : j < i => d[j].balance < d[i].balance].person_id

\* min(bals, key=bals.get): the first key, in iteration order, of minimal value
max_debtor(d) ==
    d[CHOOSE i \in DOMAIN d :
        /\ \A j \in DOMAIN d : d[j].balance >= d[i].balance
        /\ \A j \in DOMAIN d : j < i => d[j].balance > d[i].balance].person_id

\* the loop's break test
Negligible(d, creditor_id, debtor_id) ==
    Abs(Get(d, creditor_id)) < Epsilon /\ Abs(Get(d, debtor_id)) < Epsilon

CreditorBalance(d, creditor_id, debtor_id) == Get(d, creditor_id)

\* amount = min(bals[creditor_id], -bals[debtor_id])
SettleAmount(d, creditor_id, debtor_id) == Min(Get(d, creditor_id), -Get(d, debtor_id))

UpdateCreditorOnly(d, creditor_id, debtor_id, amount) ==
    Put(d, creditor_id, Get(d, creditor_id) - amount)

\* bals[creditor_id] -= amount; bals[debtor_id] += amount
UpdateBalances(d, creditor_id, debtor_id, amount) ==
    LET d1 == Put(d, creditor_id, Get(d, creditor_id) - amount)
    IN  Put(d1, debtor_id, Get(d1, debtor_id) + amount)

\* the two "remove zeros" statements; the second reads bals[debtor_id] and
\* raises KeyError when the first deleted that very key
RemoveZeros(d, creditor_id, debtor_id) ==
    LET d1 == IF Abs(Get(d, creditor_id)) < Epsilon THEN Del(d, creditor_id) ELSE d
    IN  IF debtor_id \notin Keys(d1)
        THEN [raised |-> TRUE, bals |-> d1]
        ELSE [raised |-> FALSE,
              bals |-> IF Abs(Get(d1, debtor_id)) < Epsilon THEN Del(d1, debtor_id) ELSE d1]

\* one pass through the body of "while bals:" that does not break
Iterate(d, txns) ==
    LET creditor_id == max_creditor(d)
        debtor_id == max_debtor(d)
        amount == SettleAmount(d, creditor_id, debtor_id)
        removed == RemoveZeros(UpdateBalances(d, creditor_id, debtor_id, amount),
                               creditor_id, debtor_id)
    IN  [raised |-> removed.raised,
         bals |-> removed.bals,
         transactions |-> IF removed.raised THEN txns
                          ELSE Append(txns, Transaction(debtor_id, creditor_id, amount))]

\* simp as a function: the loop run to its end.  An iteration that leaves the
\* dict as it found it repeats forever.
RECURSIVE SimpRun(_, _)
SimpRun(d, txns) ==
    IF d = <<>> \/ Negligible(d, max_creditor(d), max_debtor(d))
    THEN [raised |-> FALSE, diverges |-> FALSE, value |-> txns]
    ELSE LET r == Iterate(d, txns)
         IN  IF r.raised THEN Raised("KeyError")
             ELSE IF r.bals = d THEN [raised |-> FALSE, diverges |-> TRUE, value |-> r.transactions]
             ELSE SimpRun(r.bals, r.transactions)

simp(bs) == SimpRun(BuildBals(bs), <<>>)

\* ---------------------------------------------------------------- calculate_tab_balances
TabPeople == 1..NumPeople

Bill(currency, status, paid_by, line_items) ==
    [currency |-> currency, status |-> status, paid_by |-> paid_by, line_items |-> line_items]

LineItem(value, split_type, person_claims) ==
    [value |-> value, split_type |-> split_type, person_claims |-> person_claims]

PersonLineItemClaim(person, split_value, calculated_amount) ==
    [person |-> person, split_value |-> split_value, calculated_amount |-> calculated_amount]

\* balances_by_person[pid] = balances_by_person.get(pid, Decimal('0')) + delta
AddTo(d, pid, delta) ==
    IF pid \in Keys(d) THEN Put(d, pid, Get(d, pid) + delta)
    ELSE Append(d, Balance(pid, delta))

\* tab.bills.all() under Bill.Meta.ordering = ['-date', '-created_at']: newest first
RECURSIVE Reverse(_)
Reverse(s) == IF s = <<>> THEN <<>> ELSE Append(Reverse(Tail(s)), Head(s))

AllBills(tab_bills) == Reverse(tab_bills)

\* tab.bills.exclude(status='archived')
ExcludeArchived(tab_bills) == SelectSeq(Reverse(tab_bills), LAMBDA b : b.status # "archived")

\* the claims of a bill in the order the two inner loops visit them
RECURSIVE ClaimsOf(_)
ClaimsOf(line_items) ==
    IF line_items = <<>> THEN <<>>
    ELSE Head(line_items).person_claims \o ClaimsOf(Tail(line_items))

\* claim.calculated_amount or Decimal('0')
AmountOrZero(claim) == IF claim.calculated_amount = <<>> THEN 0 ELSE claim.calculated_amount[1]

CountsSelfClaims(claim, payer_id) == AmountOrZero(claim) <= 0

\* the two "continue" tests of the claim loop
Skipped(claim, payer_id) == AmountOrZero(claim) <= 0 \/ claim.person = payer_id

\* if settlement_currency and bill_currency != settlement_currency
NeedsConversion(bill_currency, cur) == cur # <<>> /\ bill_currency # cur[1]

DebitOnly(st, person_id, amount) ==
    [raised |-> FALSE, d |-> AddTo(st.d, person_id, -amount), payer_total |-> st.payer_total]

\* balances_by_person[person_id] = ... - amount; payer_total += amount
DebitAndCredit(st, person_id, amount) ==
    [raised |-> FALSE,
     d |-> AddTo(st.d, person_id, -amount),
     payer_total |-> st.payer_total + amount]

\* the claim loop of one bill; st is [raised, d, payer_total]
RECURSIVE ProcessClaims(_, _, _, _, _, _, _)
ProcessClaims(claims, payer_id, bill_currency, cur, table, clock, st) ==
    IF claims = <<>> \/ st.raised THEN st
    ELSE LET claim == Head(claims)
             rest == Tail(claims)
         IN  IF Skipped(claim, payer_id)
             THEN ProcessClaims(rest, payer_id, bill_currency, cur, table, clock, st)
             ELSE LET converted ==
                          IF NeedsConversion(bill_currency, cur)
                          THEN convert_amount(table, clock, AmountOrZero(claim),
                                              bill_currency, cur[1], <<>>)
                          ELSE Returned(AmountOrZero(claim))
                  IN  IF converted.raised
                      THEN [raised |-> TRUE, d |-> st.d, payer_total |-> st.payer_total]
                      ELSE ProcessClaims(rest, payer_id, bill_currency, cur, table, clock,
                               DebitAndCredit(st, claim.person, converted.value))

PayerOptional(bill) == FALSE

\* if not bill.paid_by: continue
HasNoPayer(bill) == bill.paid_by = <<>>

\* bill.paid_by_id, None being 0
PayerId(bill) == IF bill.paid_by = <<>> THEN 0 ELSE bill.paid_by[1]

\* the bill loop; st is [raised, d]
RECURSIVE ProcessBills(_, _, _, _, _)
ProcessBills(bs, cur, table, clock, st) ==
    IF bs = <<>> \/ st.raised THEN st
    ELSE LET bill == Head(bs)
         IN  IF HasNoPayer(bill)
             THEN ProcessBills(Tail(bs), cur, table, clock, st)
             ELSE LET payer_id == PayerId(bill)
                      after == ProcessClaims(ClaimsOf(bill.line_items), payer_id, bill.currency,
                                             cur, table, clock,
                                             [raised |-> FALSE, d |-> st.d, payer_total |-> 0])
                  IN  IF after.raised THEN [raised |-> TRUE, d |-> after.d]
                      ELSE ProcessBills(Tail(bs), cur, table, clock,
                               [raised |-> FALSE, d |-> AddTo(after.d, payer_id, after.payer_total)])

IncludeArchived(tab_bills, table, clock, cur) ==
    LET st == ProcessBills(AllBills(tab_bills), cur, table, clock,
                           [raised |-> FALSE, d |-> <<>>])
    IN  IF st.raised THEN ExchangeRateNotFoundError
        ELSE Returned(SelectSeq(st.d, LAMBDA b : b.balance # 0))

KeepsZeroBalances(tab_bills, table, clock, cur) ==
    LET st == ProcessBills(ExcludeArchived(tab_bills), cur, table, clock,
                           [raised |-> FALSE, d |-> <<>>])
    IN  IF st.raised THEN ExchangeRateNotFoundError ELSE Returned(st.d)

\* calculate_tab_balances(tab, settlement_currency); cur is <<>> for None
calculate_tab_balances(tab_bills, table, clock, cur) ==
    LET st == ProcessBills(ExcludeArchived(tab_bills), cur, table, clock,
                           [raised |-> FALSE, d |-> <<>>])
    IN  IF st.raised THEN ExchangeRateNotFoundError
        ELSE Returned(SelectSeq(st.d, LAMBDA b : b.balance # 0))

\* simp_tab(tab, settlement_currency)
simp_tab(tab_bills, table, clock, cur) ==
    LET computed == calculate_tab_balances(tab_bills, table, clock, cur)
    IN  IF computed.raised THEN computed ELSE simp(computed.value)

\* ================================================================ api.py
SplitTypes == {"shares", "value"}

\* the Decimal values requests carry, in half cents
LineItemValues == {10}

SplitValues == {<<>>, <<2>>}

PersonSplits == {[person_id |-> p, split_value |-> v] : p \in TabPeople, v \in SplitValues}

SplitLists == UNION {[1..k -> PersonSplits] : k \in 0..MaxSplits}

LineItemPayloads ==
    {[value |-> v, split_type |-> t, person_splits |-> ps] :
        v \in LineItemValues, t \in SplitTypes, ps \in SplitLists}

\* what a DecimalField(decimal_places=2) keeps of a Decimal
Stored(v) == IF v = <<>> THEN <<>> ELSE <<Quantize(v[1], 1)>>

\* sum(ps.split_value for ps in person_splits if ps.split_value)
RECURSIVE SumShares(_)
SumShares(person_splits) ==
    IF person_splits = <<>> THEN 0
    ELSE (IF Head(person_splits).split_value \in {<<>>, <<0>>} THEN 0
          ELSE Head(person_splits).split_value[1]) + SumShares(Tail(person_splits))

TruncatedAmount(value, split_type, total_shares, split_value) ==
    IF split_value = <<>> THEN <<>>
    ELSE IF split_type = "shares"
         THEN IF total_shares > 0
              THEN <<Epsilon * ((value * split_value[1]) \div (total_shares * Epsilon))>>
              ELSE <<0>>
         ELSE <<Epsilon * (split_value[1] \div Epsilon)>>

\* the amount _create_person_claims works out for one entry
CalculatedAmount(value, split_type, total_shares, split_value) ==
    IF split_value = <<>> THEN <<>>
    ELSE IF split_type = "shares"
         THEN IF total_shares > 0 THEN <<Quantize(value * split_value[1], total_shares)>>
              ELSE <<0>>
         ELSE <<Quantize(split_value[1], 1)>>

RECURSIVE CreateClaimsUnchecked(_, _, _, _, _)
CreateClaimsUnchecked(claims, value, split_type, total_shares, person_splits) ==
    IF person_splits = <<>> THEN Returned(claims)
    ELSE LET ps == Head(person_splits)
         IN  CreateClaimsUnchecked(
                 Append(claims, PersonLineItemClaim(ps.person_id, Stored(ps.split_value),
                            CalculatedAmount(value, split_type, total_shares, ps.split_value))),
                 value, split_type, total_shares, Tail(person_splits))

\* the loop of _create_person_claims over the entries; the INSERT of a second
\* claim of a person for the line item breaks unique_together
RECURSIVE CreateClaims(_, _, _, _, _)
CreateClaims(claims, value, split_type, total_shares, person_splits) ==
    IF person_splits = <<>> THEN Returned(claims)
    ELSE LET ps == Head(person_splits)
         IN  IF \E i \in DOMAIN claims : claims[i].person = ps.person_id
             THEN Raised("IntegrityError")
             ELSE CreateClaims(
                      Append(claims, PersonLineItemClaim(ps.person_id, Stored(ps.split_value),
                                 CalculatedAmount(value, split_type, total_shares, ps.split_value))),
                      value, split_type, total_shares, Tail(person_splits))

\* _create_person_claims(line_item, person_splits, tab): the claims of the line
\* item afterwards, or the error raised
create_person_claims(claims, value, split_type, person_splits) ==
    CreateClaims(claims, value, split_type,
                 IF split_type = "shares" THEN SumShares(person_splits) ELSE 0,
                 person_splits)

\* sum(ps.split_value for ps in v): a TypeError when a split_value is None
RECURSIVE SumAssigned(_)
SumAssigned(person_splits) ==
    IF person_splits = <<>> THEN 0
    ELSE Head(person_splits).split_value[1] + SumAssigned(Tail(person_splits))

\* LineItemCreateSchema.validate_person_splits lets the line item through
validate_person_splits(item) ==
    \/ item.person_splits = <<>>
    \/ item.split_type # "value"
    \/ /\ \A i \in DOMAIN item.person_splits : item.person_splits[i].split_value # <<>>
       /\ SumAssigned(item.person_splits) <= item.value

\* the line items create_bill builds from the payload, or the error raised
RECURSIVE CreateLineItems(_)
CreateLineItems(items) ==
    IF items = <<>> THEN Returned(<<>>)
    ELSE LET item == Head(items)
             claims == IF item.person_splits = <<>> THEN Returned(<<>>)
                       ELSE create_person_claims(<<>>, item.value, item.split_type,
                                                 item.person_splits)
             rest == CreateLineItems(Tail(items))
         IN  IF claims.raised THEN claims
             ELSE IF rest.raised THEN rest
             ELSE Returned(<<LineItem(Quantize(item.value, 1), item.split_type, claims.value)>>
                           \o rest.value)

\* POST /bills/: create_bill; a payload the schema rejects or a database error
\* leaves nothing behind (transaction.atomic)
CreateBill(currency, paid_by_id, items) ==
    /\ pc = "idle"
    /\ Len(bills) < MaxBills
    /\ \A i \in DOMAIN items : validate_person_splits(items[i])
    /\ LET created == CreateLineItems(items)
       IN  /\ ~created.raised
           /\ bills' = Append(bills, Bill(currency, "open",
                                          IF paid_by_id \in {<<>>, <<0>>} THEN <<>> ELSE paid_by_id,
                                          created.value))
    /\ response' = NoResponse
    /\ UNCHANGED <<simpVars, requests, rates, now, settlement_currency, settlements>>

KeepExistingClaims(claims) == claims

\* PersonLineItemClaim.objects.filter(line_item=line_item).delete(): what is left
DeleteExistingClaims(claims) == <<>>

\* POST /bills/{id}/submit-splits with one line_item_splits entry: the line
\* item's claims are deleted and created anew
SubmitBillSplits(b, li, person_splits) ==
    /\ pc = "idle"
    /\ b \in DOMAIN bills
    /\ li \in DOMAIN bills[b].line_items
    /\ LET line_item == bills[b].line_items[li]
           created == create_person_claims(DeleteExistingClaims(line_item.person_claims),
                                           line_item.value, line_item.split_type,
                                           person_splits)
       IN  /\ ~created.raised
           /\ bills' = [bills EXCEPT ![b].line_items[li].person_claims = created.value]
    /\ response' = NoResponse
    /\ UNCHANGED <<simpVars, requests, rates, now, settlement_currency, settlements>>

\* PATCH /bills/{id}: update_bill; fields left out of the payload are None
UpdateBill(b, currency, paid_by_id) ==
    /\ pc = "idle"
    /\ b \in DOMAIN bills
    /\ paid_by_id # <<>> => paid_by_id[1] \in TabPeople
    /\ bills' = [bills EXCEPT ![b].currency = IF currency = <<>> THEN @ ELSE currency[1],
                              ![b].paid_by = IF paid_by_id = <<>> THEN @ ELSE paid_by_id]
    /\ response' = NoResponse
    /\ UNCHANGED <<simpVars, requests, rates, now, settlement_currency, settlements>>

\* the admin site saves a Bill with another status
SetBillStatus(b, status) ==
    /\ pc = "idle"
    /\ b \in DOMAIN bills
    /\ bills[b].status # status
    /\ bills' = [bills EXCEPT ![b].status = status]
    /\ response' = NoResponse
    /\ UNCHANGED <<simpVars, requests, rates, now, settlement_currency, settlements>>

\* DELETE /bills/{id}: delete_bill
DeleteBill(b) ==
    /\ pc = "idle"
    /\ b \in DOMAIN bills
    /\ bills' = SubSeq(bills, 1, b - 1) \o SubSeq(bills, b + 1, Len(bills))
    /\ response' = NoResponse
    /\ UNCHANGED <<simpVars, requests, rates, now, settlement_currency, settlements>>

\* a call of calculate_tab_balances(tab, cur)
CalculateTabBalances(cur) ==
    /\ pc = "idle"
    /\ response' = [op |-> "calculate_tab_balances", settlement_currency |-> cur,
                    result |-> calculate_tab_balances(bills, rates, now, cur)]
    /\ UNCHANGED <<simpVars, requests, dbVars>>

\* a call of simp_tab(tab, settlement_currency=tab.settlement_currency)
SimpTab ==
    /\ pc = "idle"
    /\ response' = [op |-> "simp_tab", settlement_currency |-> <<settlement_currency>>,
                    result |-> simp_tab(bills, rates, now, <<settlement_currency>>)]
    /\ UNCHANGED <<simpVars, requests, dbVars>>

OptionalCurrencies == {<<>>} \cup {<<c>> : c \in Currencies}

OptionalPeople == {<<>>} \cup {<<p>> : p \in TabPeople}

\* the rate rows saved while the tab is in use
TabRateRows == {ExchangeRate("USD", "GBP", <<1, 2>>, 0)}

\* the line items and splits the tab's clients send: splits by shares
TabSplitLists == SplitLists

TabLineItemPayloads == {item \in LineItemPayloads : item.split_type = "shares"}

Init ==
    /\ SimpIdle
    /\ DbEmpty
    /\ response = NoResponse

Next ==
    \/ \E currency \in Currencies, paid_by_id \in OptionalPeople, n \in 0..MaxLineItems :
          \E items \in [1..n -> TabLineItemPayloads] : CreateBill(currency, paid_by_id, items)
    \/ \E b \in 1..MaxBills, li \in 1..MaxLineItems, person_splits \in TabSplitLists :
          SubmitBillSplits(b, li, person_splits)
    \/ \E b \in 1..MaxBills, currency \in OptionalCurrencies, paid_by_id \in OptionalPeople :
          UpdateBill(b, currency, paid_by_id)
    \/ \E b \in 1..MaxBills, status \in {"open", "archived"} : SetBillStatus(b, status)
    \/ \E b \in 1..MaxBills : DeleteBill(b)
    \/ \E row \in TabRateRows : AddExchangeRate(row)
    \/ CalculateTabBalances(<<settlement_currency>>)
    \/ SimpTab

Spec == Init /\ [][Next]_vars

\* ---------------------------------------------------------------- splits, call by call
\* One bill of a tab of MaxBatch people; every call is recorded in response
\* with its payload and its outcome, a refused call included.
BatchSplitValues == {<<>>, <<0>>, <<3>>, <<200>>, <<400>>}

\* 0.055 and 30.00
BatchLineItemValues == {11, 6000}

\* batches naming each person once, in the order of their ids
DistinctBatches ==
    UNION {{[i \in 1..k |-> [person_id |-> i, split_value |-> v[i]]] :
               v \in [1..k -> BatchSplitValues]} : k \in 0..MaxBatch}

\* batches naming person 1 twice
DuplicateBatches ==
    {<<[person_id |-> 1, split_value |-> v], [person_id |-> 2, split_value |-> v],
       [person_id |-> 1, split_value |-> v]>> : v \in {<<>>, <<200>>}}

Batches == DistinctBatches \cup DuplicateBatches

BatchLineItemPayloads ==
    {[value |-> v, split_type |-> t, person_splits |-> ps] :
        v \in BatchLineItemValues, t \in SplitTypes, ps \in Batches}

\* POST /bills/ for the tab's first bill, with one line item, currency GBP and
\* no payer.  A payload the schema refuses and an error of the database leave
\* no row behind.
CreateBillCall(item) ==
    /\ pc = "idle"
    /\ bills = <<>>
    /\ LET created == IF validate_person_splits(item) THEN CreateLineItems(<<item>>)
                      ELSE Raised("ValidationError")
       IN  /\ bills' = IF created.raised THEN bills
                       ELSE Append(bills, Bill("GBP", "open", <<>>, created.value))
           /\ response' = [op |-> "create_bill", bill |-> Len(bills) + 1, line_item |-> 1,
                           value |-> item.value, split_type |-> item.split_type,
                           person_splits |-> item.person_splits, deleted |-> 0,
                           result |-> IF created.raised THEN created ELSE Returned("bill")]
    /\ UNCHANGED <<simpVars, requests, rates, now, settlement_currency, settlements>>

\* POST /bills/{id}/submit-splits with one line_item_splits entry.  deleted is
\* the number of claims the delete() removed.
SubmitBillSplitsCall(b, li, person_splits) ==
    /\ pc = "idle"
    /\ b \in DOMAIN bills
    /\ li \in DOMAIN bills[b].line_items
    /\ LET line_item == bills[b].line_items[li]
           created == create_person_claims(DeleteExistingClaims(line_item.person_claims),
                                           line_item.value, line_item.split_type,
                                           person_splits)
       IN  /\ bills' = IF created.raised THEN bills
                       ELSE [bills EXCEPT ![b].line_items[li].person_claims = created.value]
           /\ response' = [op |-> "submit_bill_splits", bill |-> b, line_item |-> li,
                           value |-> line_item.value, split_type |-> line_item.split_type,
                           person_splits |-> person_splits,
                           deleted |-> Len(line_item.person_claims),
                           result |-> IF created.raised THEN created ELSE Returned("bill")]
    /\ UNCHANGED <<simpVars, requests, rates, now, settlement_currency, settlements>>

InitSplits ==
    /\ SimpIdle
    /\ DbEmpty
    /\ response = NoResponse

\* the tab's one bill is created, then its splits are submitted over and over
NextSplits ==
    \/ \E item \in BatchLineItemPayloads : CreateBillCall(item)
    \/ \E b \in 1..MaxBills, li \in 1..MaxLineItems, person_splits \in Batches :
          SubmitBillSplitsCall(b, li, person_splits)

SpecSplits == InitSplits /\ [][NextSplits]_vars

\* ---------------------------------------------------------------- balances of any claims
\* the line items of the bills whose balances are calculated: split by value
\* between the people in the order of their ids, an amount being absent, zero,
\* negative or positive
BalanceSplitValues == {<<>>, <<0>>, <<-2>>, <<2>>}

BalanceLineItemPayloads ==
    {[value |-> v, split_type |-> "value",
      person_splits |-> [i \in 1..k |-> [person_id |-> i, split_value |-> s[i]]]] :
        v \in LineItemValues, k \in 0..NumPeople, s \in [1..NumPeople -> BalanceSplitValues]}

InitBalances ==
    /\ SimpIdle
    /\ DbEmpty
    /\ response = NoResponse

NextBalances ==
    \/ \E currency \in Currencies, paid_by_id \in {<<p>> : p \in TabPeople} :
          \E items \in [1..MaxLineItems -> BalanceLineItemPayloads] :
              CreateBill(currency, paid_by_id, items)
    \/ \E row \in TabRateRows : AddExchangeRate(row)
    \/ \E cur \in OptionalCurrencies : CalculateTabBalances(cur)

SpecBalances == InitBalances /\ [][NextBalances]_vars

\* ---------------------------------------------------------------- simplify_tab
Settlement(from_person, to_person, amount, currency) ==
    [from_person |-> from_person, to_person |-> to_person, amount |-> amount,
     currency |-> currency]

KeepSettlements(rows) == rows

\* Settlement.objects.filter(tab=tab).delete(): what is left
DeleteSettlements(rows) == <<>>

\* the loop of Settlement.objects.create over the transactions
CreateSettlements(rows, txns, currency) ==
    rows \o [i \in DOMAIN txns |->
                Settlement(txns[i].payer_id, txns[i].payee_id,
                           Quantize(txns[i].amount, 1), currency)]

\* the try/except around simp_tab: ExchangeRateNotFoundError becomes an HttpError
HttpErrorOf(computed) ==
    IF computed.raised /\ computed.error = "ExchangeRateNotFoundError"
    THEN Raised("Currency conversion failed")
    ELSE computed

\* what simplify_tab answers: the transactions of simp_tab, or the HttpError
SimplifyResult(tab_bills, table, clock, currency) ==
    IF ExcludeArchived(tab_bills) = <<>> THEN Raised("Tab has no bills to simplify")
    ELSE HttpErrorOf(simp_tab(tab_bills, table, clock, <<currency>>))

KeepPartial(before, after) == after

\* transaction.atomic: an exception leaving the handler undoes its writes
Rollback(before, after) == before

\* simplify_tab from the deletion on, given what the computation answers.  An
\* error rolls the deletion back (transaction.atomic); a simp that never
\* returns never answers.
Persist(result) ==
    /\ IF result.raised THEN TRUE ELSE ~result.diverges
    /\ settlements' =
           IF result.raised
           THEN IF result.error = "Tab has no bills to simplify" THEN settlements
                ELSE Rollback(settlements, DeleteSettlements(settlements))
           ELSE CreateSettlements(DeleteSettlements(settlements), result.value,
                                  settlement_currency)
    /\ response' = [op |-> "simplify_tab", settlement_currency |-> settlement_currency,
                    deleted |-> IF result.raised THEN <<>> ELSE settlements,
                    result |-> IF result.raised THEN result ELSE Returned(result.value)]

\* POST /tabs/{id}/simplify: simplify_tab
SimplifyTab ==
    /\ pc = "idle"
    /\ Persist(SimplifyResult(bills, rates, now, settlement_currency))
    /\ UNCHANGED <<simpVars, requests, bills, rates, now, settlement_currency>>

\* PATCH /tabs/{id}: update_tab; a field left out of the payload is None
UpdateTab(currency) ==
    /\ pc = "idle"
    /\ settlement_currency' = IF currency = <<>> THEN settlement_currency ELSE currency[1]
    /\ response' = NoResponse
    /\ UNCHANGED <<simpVars, requests, bills, rates, now, settlements>>

\* the line items of the bills that are simplified: claimed whole by one person
SettleLineItemPayloads ==
    {item \in TabLineItemPayloads :
        /\ Len(item.person_splits) = 1
        /\ item.person_splits[1].split_value # <<>>}

InitSettle ==
    /\ SimpIdle
    /\ DbEmpty
    /\ response = NoResponse

NextSettle ==
    \/ \E currency \in Currencies, paid_by_id \in OptionalPeople :
          \E items \in [1..MaxLineItems -> SettleLineItemPayloads] :
              CreateBill(currency, paid_by_id, items)
    \/ \E b \in 1..MaxBills : DeleteBill(b)
    \/ \E row \in TabRateRows : AddExchangeRate(row)
    \/ \E currency \in OptionalCurrencies : UpdateTab(currency)
    \/ SimplifyTab

SpecSettle == InitSettle /\ [][NextSettle]_vars

\* ---------------------------------------------------------------- simplify_tab, statement by statement
\* Requests are served by separate workers, each inside its own database
\* transaction (transaction.atomic) at the isolation Django runs with by
\* default, READ COMMITTED: a statement reads the rows committed when it
\* starts, a transaction's own writes are seen by others when it commits, and a
\* DELETE waits for a transaction that has deleted one of its rows.
NoRequest == [pc |-> "none"]

Open(r) == requests[r].pc \in {"begun", "deleting", "deleted", "computed"}

\* the rows of s left when one copy of each row of gone is taken away
RECURSIVE Without(_, _)
Without(s, gone) ==
    IF gone = <<>> THEN s
    ELSE IF \E i \in DOMAIN s : s[i] = Head(gone)
         THEN LET k == CHOOSE i \in DOMAIN s : s[i] = Head(gone) /\ \A j \in 1..(i - 1) : s[j] # Head(gone)
              IN  Without(SubSeq(s, 1, k - 1) \o SubSeq(s, k + 1, Len(s)), Tail(gone))
         ELSE Without(s, Tail(gone))

\* the rows of seen that are still in s
StillIn(s, seen) == Without(seen, Without(seen, s))

\* lines 139-150: load the tab, refuse a tab without non-archived bills, read
\* its settlement currency
SimplifyBegin(r) ==
    /\ pc = "idle"
    /\ ~Open(r)
    /\ requests' = [requests EXCEPT ![r] =
           IF ExcludeArchived(bills) = <<>>
           THEN [pc |-> "done", result |-> Raised("Tab has no bills to simplify")]
           ELSE [pc |-> "begun", settlement_currency |-> settlement_currency]]
    /\ UNCHANGED <<simpVars, dbVars, response>>

\* line 153, the DELETE is issued: it reads the tab's committed rows
SimplifyDeleteIssued(r) ==
    /\ pc = "idle"
    /\ requests[r].pc = "begun"
    /\ requests' = [requests EXCEPT ![r] =
           [pc |-> "deleting", settlement_currency |-> requests[r].settlement_currency,
            seen |-> settlements]]
    /\ UNCHANGED <<simpVars, dbVars, response>>

\* line 153, the DELETE returns: once no other open transaction holds a
\* deletion of one of the rows, those still there are deleted
SimplifyDeleted(r) ==
    /\ pc = "idle"
    /\ requests[r].pc = "deleting"
    /\ \A q \in DOMAIN requests :
          (q # r /\ requests[q].pc \in {"deleted", "computed"}) =>
              StillIn(requests[q].deleted, requests[r].seen) = <<>>
    /\ requests' = [requests EXCEPT ![r] =
           [pc |-> "deleted", settlement_currency |-> requests[r].settlement_currency,
            deleted |-> StillIn(settlements, requests[r].seen)]]
    /\ UNCHANGED <<simpVars, dbVars, response>>

\* what the request keeps of the computation: an error ends it and rolls its
\* transaction back; a simp that never returns never answers
Keep(r, result) ==
    /\ IF result.raised THEN TRUE ELSE ~result.diverges
    /\ requests' = [requests EXCEPT ![r] =
           IF result.raised THEN [pc |-> "done", result |-> result]
           ELSE [pc |-> "computed",
                 settlement_currency |-> requests[r].settlement_currency,
                 deleted |-> requests[r].deleted,
                 result |-> Returned(result.value)]]

\* lines 155-159: simp_tab over the rows committed by now, an
\* ExchangeRateNotFoundError becoming an HttpError
SimplifyComputed(r) ==
    /\ pc = "idle"
    /\ requests[r].pc = "deleted"
    /\ Keep(r, HttpErrorOf(simp_tab(bills, rates, now, <<requests[r].settlement_currency>>)))
    /\ UNCHANGED <<simpVars, dbVars, response>>

\* lines 162-182 and the end of transaction.atomic: the Settlement rows are
\* created and the transaction commits
SimplifyCommitted(r) ==
    /\ pc = "idle"
    /\ requests[r].pc = "computed"
    /\ settlements' = CreateSettlements(Without(settlements, requests[r].deleted),
                                        requests[r].result.value,
                                        requests[r].settlement_currency)
    /\ requests' = [requests EXCEPT ![r] =
           [pc |-> "done", settlement_currency |-> requests[r].settlement_currency,
            result |-> requests[r].result]]
    /\ UNCHANGED <<simpVars, bills, rates, now, settlement_currency, response>>

InitConcurrent ==
    /\ SimpIdle
    /\ bills = <<>>
    /\ rates = {}
    /\ now = 0
    /\ settlement_currency = "GBP"
    /\ settlements = <<>>
    /\ requests = [r \in 1..MaxRequests |-> NoRequest]
    /\ response = NoResponse

\* the bills written while requests are served: paid by the first person, their
\* one line item claimed whole by the second or by nobody
ConcurrentSplitLists == {<<>>, <<[person_id |-> 2, split_value |-> <<2>>]>>}

ConcurrentLineItemPayloads ==
    {item \in TabLineItemPayloads : item.person_splits \in ConcurrentSplitLists \ {<<>>}}

NextConcurrent ==
    \/ \E currency \in Currencies :
          \E items \in [1..MaxLineItems -> ConcurrentLineItemPayloads] :
              CreateBill(currency, <<1>>, items)
    \/ \E b \in 1..MaxBills, li \in 1..MaxLineItems, person_splits \in ConcurrentSplitLists :
          SubmitBillSplits(b, li, person_splits)
    \/ \E row \in TabRateRows : AddExchangeRate(row)
    \/ \E r \in 1..MaxRequests : SimplifyBegin(r)
    \/ \E r \in 1..MaxRequests : SimplifyDeleteIssued(r)
    \/ \E r \in 1..MaxRequests : SimplifyDeleted(r)
    \/ \E r \in 1..MaxRequests : SimplifyComputed(r)
    \/ \E r \in 1..MaxRequests : SimplifyCommitted(r)

SpecConcurrent == InitConcurrent /\ [][NextConcurrent]_vars

\* ---------------------------------------------------------------- simp_tab on a tab of three
\* the bills of a tab of MaxBatch people: one line item of 0.10 split by
\* shares of one or two, or not at all, between the people in the order of
\* their ids, paid by any of them
ComposeSplitValues == {<<>>, <<200>>, <<400>>}

ComposeLineItemPayloads ==
    {[value |-> 20, split_type |-> "shares",
      person_splits |-> [i \in 1..MaxBatch |-> [person_id |-> i, split_value |-> v[i]]]] :
        v \in [1..MaxBatch -> ComposeSplitValues]}

InitCompose ==
    /\ SimpIdle
    /\ DbEmpty
    /\ response = NoResponse

NextCompose ==
    \/ \E currency \in Currencies, paid_by_id \in {<<p>> : p \in 1..MaxBatch} :
          \E items \in [1..MaxLineItems -> ComposeLineItemPayloads] :
              CreateBill(currency, paid_by_id, items)
    \/ \E row \in TabRateRows : AddExchangeRate(row)
    \/ SimpTab

SpecCompose == InitCompose /\ [][NextCompose]_vars

\* ---------------------------------------------------------------- get_tab_person_totals
PersonTotal(person_id, total) == [person_id |-> person_id, total |-> total]

\* if person_id not in person_totals: person_totals[person_id] = {..., 'total': Decimal('0')}
SetDefault(d, person_id) ==
    IF \E i \in DOMAIN d : d[i].person_id = person_id THEN d
    ELSE Append(d, PersonTotal(person_id, 0))

\* person_totals[person_id]['total'] += amount
AddToTotal(d, person_id, amount) ==
    [i \in DOMAIN d |-> IF d[i].person_id = person_id
                        THEN PersonTotal(person_id, d[i].total + amount) ELSE d[i]]

UnconvertedOnFailure(converted, amount) ==
    IF converted.raised THEN amount ELSE converted.value

\* what a claim adds to its person's total: the converted amount, or nothing
\* when the conversion raised ExchangeRateNotFoundError (continue)
Contribution(converted, amount) ==
    IF converted.raised THEN 0 ELSE converted.value

\* the loop over the claims of a bill
RECURSIVE TotalClaims(_, _, _, _, _, _)
TotalClaims(claims, bill_currency, currency, table, clock, d) ==
    IF claims = <<>> THEN d
    ELSE LET claim == Head(claims)
             amount == AmountOrZero(claim)
             converted == IF bill_currency # currency
                          THEN convert_amount(table, clock, amount, bill_currency, currency, <<>>)
                          ELSE Returned(amount)
         IN  TotalClaims(Tail(claims), bill_currency, currency, table, clock,
                         AddToTotal(SetDefault(d, claim.person), claim.person,
                                    Contribution(converted, amount)))

\* the loop over tab.bills.all()
RECURSIVE TotalBills(_, _, _, _, _)
TotalBills(bs, currency, table, clock, d) ==
    IF bs = <<>> THEN d
    ELSE TotalBills(Tail(bs), currency, table, clock,
                    TotalClaims(ClaimsOf(Head(bs).line_items), Head(bs).currency, currency,
                                table, clock, d))

\* list(person_totals.values())
get_tab_person_totals(tab_bills, table, clock, currency) ==
    Returned(TotalBills(AllBills(tab_bills), currency, table, clock, <<>>))

\* GET /tabs/{id}/person-totals
GetTabPersonTotals ==
    /\ pc = "idle"
    /\ response' = [op |-> "get_tab_person_totals", settlement_currency |-> settlement_currency,
                    result |-> get_tab_person_totals(bills, rates, now, settlement_currency)]
    /\ UNCHANGED <<simpVars, requests, dbVars>>

InitTotals ==
    /\ SimpIdle
    /\ DbEmpty
    /\ response = NoResponse

NextTotals ==
    \/ \E currency \in Currencies, paid_by_id \in OptionalPeople :
          \E items \in [1..MaxLineItems -> SettleLineItemPayloads] :
              CreateBill(currency, paid_by_id, items)
    \/ \E row \in TabRateRows : AddExchangeRate(row)
    \/ \E currency \in OptionalCurrencies : UpdateTab(currency)
    \/ GetTabPersonTotals
    \/ SimplifyTab

SpecTotals == InitTotals /\ [][NextTotals]_vars

\* ---------------------------------------------------------------- simp, step by step
\* The caller hands simp a list of balances of distinct people, their ids
\* ascending or descending along the list.
IdOrders(n) == {[i \in 1..n |-> i], [i \in 1..n |-> n + 1 - i]}

\* A owed 30.00, B owing 10.00, C owing 20.00
ExampleBalances == <<Balance(1, 6000), Balance(2, -2000), Balance(3, -4000)>>

\* two people owing 0.015 each, three owed 0.01 each
DustBalances ==
    <<Balance(1, -3), Balance(2, -3), Balance(3, 2), Balance(4, 2), Balance(5, 2)>>

InitSimp ==
    /\ \/ \E n \in 0..MaxPeople :
             \E ids \in IdOrders(n), v \in [1..n -> (-MaxBal)..MaxBal] :
                 balances = [i \in 1..n |-> Balance(ids[i], v[i])]
       \/ balances = ExampleBalances
       \/ balances = DustBalances
    /\ bals = <<>>
    /\ transactions = <<>>
    /\ pc = "call"
    /\ DbEmpty
    /\ response = NoResponse

\* lines 88-93: build the dict, return [] when it is empty
SimpEnter ==
    /\ pc = "call"
    /\ bals' = BuildBals(balances)
    /\ transactions' = <<>>
    /\ pc' = IF BuildBals(balances) = <<>> THEN "done" ELSE "loop"
    /\ UNCHANGED <<balances, requests, dbVars, response>>

\* lines 104-126: an iteration that settles the largest creditor with the largest debtor
SimpLoop ==
    /\ pc = "loop"
    /\ bals # <<>>
    /\ ~Negligible(bals, max_creditor(bals), max_debtor(bals))
    /\ Len(transactions) < MaxIter
    /\ LET r == Iterate(bals, transactions)
       IN  /\ bals' = r.bals
           /\ transactions' = r.transactions
           /\ pc' = IF r.raised THEN "KeyError" ELSE "loop"
    /\ UNCHANGED <<balances, requests, dbVars, response>>

\* lines 108-110: what is left is dust
SimpBreak ==
    /\ pc = "loop"
    /\ bals # <<>>
    /\ Negligible(bals, max_creditor(bals), max_debtor(bals))
    /\ pc' = "done"
    /\ UNCHANGED <<balances, requests, bals, transactions, dbVars, response>>

\* line 104 with an empty dict, line 128
SimpReturn ==
    /\ pc = "loop"
    /\ bals = <<>>
    /\ pc' = "done"
    /\ UNCHANGED <<balances, requests, bals, transactions, dbVars, response>>

NextSimp == SimpEnter \/ SimpLoop \/ SimpBreak \/ SimpReturn

SpecSimp == InitSimp /\ [][NextSimp]_vars

\* ---------------------------------------------------------------- C1
People == 1..MaxPeople

Original(p) == SumSeq([i \in DOMAIN balances |->
                    IF balances[i].person_id = p THEN balances[i].balance ELSE 0])

\* what the emitted transactions pay p, minus what they make p pay
Net(p) == SumSeq([i \in DOMAIN transactions |->
                    (IF transactions[i].payee_id = p THEN transactions[i].amount ELSE 0)
                  - (IF transactions[i].payer_id = p THEN transactions[i].amount ELSE 0)])

Working(p) == IF p \in Keys(bals) THEN Get(bals, p) ELSE 0

ZeroSumInput == SumSeq([i \in DOMAIN balances |-> balances[i].balance]) = 0

\* C1: for a zero-sum balance list, at every point of the loop a person's
\* original balance is the working balance plus the net of the transactions
\* emitted so far, a removed person's difference being dust below 0.01; so
\* when simp has returned every person's net differs from the original
\* balance by less than 0.01.
C1_Conservation ==
    (ZeroSumInput /\ pc \in {"loop", "done"}) =>
        \A p \in People :
            /\ p \in Keys(bals) => Original(p) = Working(p) + Net(p)
            /\ p \notin Keys(bals) => Abs(Original(p) - Net(p)) < Epsilon
            /\ pc = "done" => Abs(Original(p) - Net(p)) < Epsilon

\* simp returned for a zero-sum list, having emitted transactions and dropped dust
C1_Witness ==
    /\ ZeroSumInput
    /\ pc = "done"
    /\ Len(transactions) >= 2
    /\ \E p \in People : Original(p) # Net(p)

\* ---------------------------------------------------------------- C2
\* C2: simp terminates on every finite balance list because each iteration
\* of the loop removes at least one person from the working dict.
C2_EachIterationRemoves ==
    [][(pc = "loop" /\ Len(transactions') > Len(transactions)) => Len(bals') < Len(bals)]_vars

\* ---------------------------------------------------------------- C4
\* C4: with n >= 1 non-zero balances in the list, simp emits at most n - 1
\* transactions.
C4_AtMostNMinusOne ==
    Len(BuildBals(balances)) >= 1 => Len(transactions) <= Len(BuildBals(balances)) - 1

\* ---------------------------------------------------------------- C5
\* C5: every transaction simp emits has a strictly positive amount, whatever
\* the balance list.
C5_PositiveAmounts ==
    \A i \in DOMAIN transactions : transactions[i].amount > 0

\* ---------------------------------------------------------------- C3
Computed(cur) == calculate_tab_balances(bills, rates, now, cur)

SumBalances(bs) == SumSeq([i \in DOMAIN bs |-> bs[i].balance])

\* a claim calculate_tab_balances charges: of a bill that is not archived and
\* has a payer, with a positive amount, made by someone other than the payer
Charged(bill, claim) ==
    /\ bill.status # "archived"
    /\ bill.paid_by # <<>>
    /\ claim.calculated_amount # <<>>
    /\ claim.calculated_amount[1] > 0
    /\ claim.person # bill.paid_by[1]

ClaimsIn(bill) ==
    UNION {{bill.line_items[l].person_claims[c] : c \in DOMAIN bill.line_items[l].person_claims} :
              l \in DOMAIN bill.line_items}

BillSet == {bills[b] : b \in DOMAIN bills}

IsCalculated == response.op = "calculate_tab_balances"

\* C3: whatever the tab holds and whatever settlement currency is asked for
\* (or none), the balances calculate_tab_balances returns sum to zero, also
\* when claim amounts were converted and rounded.
C3_ZeroSum ==
    /\ \A cur \in OptionalCurrencies :
          ~Computed(cur).raised => SumBalances(Computed(cur).value) = 0
    /\ (IsCalculated /\ ~response.result.raised) => SumBalances(response.result.value) = 0

\* balances were returned for a tab with a claim whose conversion rounded
C3_Witness ==
    /\ IsCalculated
    /\ ~response.result.raised
    /\ response.result.value # <<>>
    /\ \E bill \in BillSet : \E claim \in ClaimsIn(bill) :
          /\ Charged(bill, claim)
          /\ bill.currency # settlement_currency
          /\ get_latest_exchange_rate(rates, now, bill.currency, settlement_currency, <<>>).value[2]
                 * convert_amount(rates, now, claim.calculated_amount[1], bill.currency,
                                  settlement_currency, <<>>).value
             # get_latest_exchange_rate(rates, now, bill.currency, settlement_currency, <<>>).value[1]
                 * claim.calculated_amount[1]

\* ---------------------------------------------------------------- C6
NoRateRow(from, to) ==
    ~\E r \in rates :
        /\ r.effective_date <= now
        /\ \/ r.from_currency = from /\ r.to_currency = to
           \/ r.from_currency = to /\ r.to_currency = from

\* a charged claim of a bill in another currency than cur, with no rate row
\* in either direction
MissingRate(cur) ==
    /\ cur # <<>>
    /\ \E bill \in BillSet : \E claim \in ClaimsIn(bill) :
          /\ Charged(bill, claim)
          /\ bill.currency # cur[1]
          /\ NoRateRow(bill.currency, cur[1])

\* C6: when a charged claim needs a conversion for which neither a direct nor
\* an inverse rate row exists, calculate_tab_balances and simp_tab raise
\* ExchangeRateNotFoundError: no balances, not even those already
\* accumulated, and no transactions come back.
C6_MissingRateFails ==
    /\ \A cur \in OptionalCurrencies :
          MissingRate(cur) =>
              /\ Computed(cur) = ExchangeRateNotFoundError
              /\ simp_tab(bills, rates, now, cur) = ExchangeRateNotFoundError
    /\ (response.op \in {"calculate_tab_balances", "simp_tab"}
            /\ MissingRate(response.settlement_currency)) =>
          response.result = ExchangeRateNotFoundError

\* simp_tab raised although a newer bill in the settlement currency had
\* already been accumulated
C6_Witness ==
    /\ response.op = "simp_tab"
    /\ response.result = ExchangeRateNotFoundError
    /\ Len(bills) = 2
    /\ bills[2].currency = settlement_currency
    /\ \E claim \in ClaimsIn(bills[2]) : Charged(bills[2], claim)
    /\ bills[1].currency # settlement_currency
    /\ \E claim \in ClaimsIn(bills[1]) : Charged(bills[1], claim)

\* ---------------------------------------------------------------- C7
\* the tab without its archived bills
WithoutArchived == SelectSeq(bills, LAMBDA b : b.status # "archived")

\* C7: the result of calculate_tab_balances, balances or failure, is the one
\* it gives for the tab without its archived bills, for every settlement
\* currency: an archived bill adds nothing and is never converted.
C7_ArchivedExcluded ==
    \A cur \in OptionalCurrencies :
        Computed(cur) = calculate_tab_balances(WithoutArchived, rates, now, cur)

\* balances were returned for a tab with an archived bill whose claims could
\* not even be converted
C7_Witness ==
    /\ IsCalculated
    /\ ~response.result.raised
    /\ response.result.value # <<>>
    /\ \E bill \in BillSet : \E claim \in ClaimsIn(bill) :
          /\ bill.status = "archived"
          /\ Charged([bill EXCEPT !.status = "open"], claim)
          /\ bill.currency # settlement_currency
          /\ NoRateRow(bill.currency, settlement_currency)

\* ---------------------------------------------------------------- C8
IsSelfClaim(bill, claim) == bill.paid_by # <<>> /\ claim.person = bill.paid_by[1]

\* the tab without the claims payers made on their own bills
WithoutSelfClaims ==
    [b \in DOMAIN bills |->
        [bills[b] EXCEPT !.line_items =
            [l \in DOMAIN bills[b].line_items |->
                [bills[b].line_items[l] EXCEPT !.person_claims =
                    SelectSeq(bills[b].line_items[l].person_claims,
                              LAMBDA c : ~IsSelfClaim(bills[b], c))]]]]

\* C8: the result of calculate_tab_balances is the one it gives for the tab
\* without the payers' claims on their own bills, for every settlement
\* currency: such a claim changes nobody's balance and is never converted.
C8_SelfClaimExcluded ==
    \A cur \in OptionalCurrencies :
        Computed(cur) = calculate_tab_balances(WithoutSelfClaims, rates, now, cur)

\* balances were returned for a tab where a payer claims, with a positive
\* amount, on a bill of theirs that could not be converted
C8_Witness ==
    /\ IsCalculated
    /\ ~response.result.raised
    /\ response.result.value # <<>>
    /\ \E bill \in BillSet : \E claim \in ClaimsIn(bill) :
          /\ bill.status # "archived"
          /\ IsSelfClaim(bill, claim)
          /\ claim.calculated_amount # <<>>
          /\ claim.calculated_amount[1] > 0
          /\ bill.currency # settlement_currency
          /\ NoRateRow(bill.currency, settlement_currency)

\* ---------------------------------------------------------------- C9
IsLookup == response.op = "get_latest_exchange_rate" /\ response.from_currency # response.to_currency

DirectRows == {r \in rates : /\ r.from_currency = response.from_currency
                             /\ r.to_currency = response.to_currency
                             /\ r.effective_date <= response.as_of}

InverseRows == {r \in rates : /\ r.from_currency = response.to_currency
                              /\ r.to_currency = response.from_currency
                              /\ r.effective_date <= response.as_of}

Newest(rows) == {r \in rows : \A q \in rows : q.effective_date <= r.effective_date}

\* C9: between two different currencies a direct row effective on or before
\* asOf decides the rate whenever there is one, however recent the inverse
\* rows; without a direct row the newest inverse row gives 1/rate; with no
\* row at all, or a zero rate in the located inverse row, the lookup raises
\* ExchangeRateNotFoundError.
C9_LookupOrder ==
    IsLookup =>
        /\ DirectRows # {} =>
              /\ ~response.result.raised
              /\ \E r \in DirectRows : response.result.value = r.rate
        /\ (DirectRows = {} /\ InverseRows # {}) =>
              \A r \in Newest(InverseRows) :
                  IF r.rate[1] = 0 THEN response.result.raised
                  ELSE /\ ~response.result.raised
                       /\ response.result.value = <<r.rate[2], r.rate[1]>>
        /\ (DirectRows = {} /\ InverseRows = {}) => response.result.raised

\* a direct row was used although a more recent inverse row with another rate exists
C9_Witness ==
    /\ IsLookup
    /\ ~response.result.raised
    /\ \E d \in DirectRows, i \in InverseRows :
          /\ i.effective_date > d.effective_date
          /\ i.rate[1] # 0
          /\ <<i.rate[2], i.rate[1]>> # d.rate
          /\ response.result.value = d.rate

\* ---------------------------------------------------------------- C10
FutureRowsOnly == /\ rates \subseteq rates'
                  /\ now' = now
                  /\ \A r \in rates' \ rates : r.effective_date > now

\* C10: of the rows of the directed pair the lookup uses the one with the
\* latest effective_date not after asOf, never a row effective after asOf,
\* and saving a row with a future effective date changes no lookup result.
C10_LatestNotAfter ==
    /\ [](IsLookup =>
            /\ DirectRows # {} =>
                  \A r \in Newest(DirectRows) : response.result.value = r.rate
            /\ (DirectRows = {} /\ ~response.result.raised) =>
                  \A r \in Newest(InverseRows) : response.result.value = <<r.rate[2], r.rate[1]>>)
    /\ [][FutureRowsOnly =>
            \A f \in Currencies, t \in Currencies :
                get_latest_exchange_rate(rates', now', f, t, <<>>)
                    = get_latest_exchange_rate(rates, now, f, t, <<>>)]_vars

\* two rows of the pair are effective by asOf, a third one only later, and the
\* newer of the two is the one used
C10_Witness ==
    /\ IsLookup
    /\ ~response.result.raised
    /\ \E old \in DirectRows, new \in DirectRows, future \in rates :
          /\ old.effective_date < new.effective_date
          /\ old.rate # new.rate
          /\ future.from_currency = response.from_currency
          /\ future.to_currency = response.to_currency
          /\ future.effective_date > response.as_of
          /\ future.rate # new.rate
          /\ response.result.value = new.rate

\* ---------------------------------------------------------------- C11
IsConversion == response.op = "convert_amount"

\* r is a rounded to whole cents, a tie going to the even cent
IsQuantized(a, r) ==
    /\ r % Epsilon = 0
    /\ 2 * Abs(r - a) <= Epsilon
    /\ 2 * Abs(r - a) = Epsilon => (r \div Epsilon) % 2 = 0

\* C11: whatever rows the rate table holds, the rate from a currency to itself
\* is exactly 1, converting an amount to its own currency succeeds and returns
\* the amount rounded to whole cents, and converting the result once more
\* returns it unchanged.
C11_NoOpConversion ==
    /\ \A X \in Currencies, d \in OptionalDates :
          get_latest_exchange_rate(rates, now, X, X, d) = Returned(<<1, 1>>)
    /\ (IsConversion /\ response.from_currency = response.to_currency) =>
          /\ ~response.result.raised
          /\ IsQuantized(response.amount, response.result.value)
          /\ convert_amount(rates, now, response.result.value, response.from_currency,
                            response.to_currency, <<response.as_of>>) = response.result

\* an amount of half a cent more than whole cents was converted to its own
\* currency while the rate table was empty
C11_Witness ==
    /\ IsConversion
    /\ response.from_currency = response.to_currency
    /\ rates = {}
    /\ response.amount % Epsilon # 0
    /\ ~response.result.raised
    /\ response.result.value # response.amount

\* ---------------------------------------------------------------- C12
\* C12: when no row of the pair itself is effective by asOf and the newest
\* row of the opposite pair has the non-zero rate r, the converted amount is
\* amount / r rounded once, to whole cents.
C12_InverseRateExact ==
    (IsConversion /\ response.from_currency # response.to_currency /\ DirectRows = {}) =>
        \A r \in Newest(InverseRows) :
            r.rate[1] # 0 =>
                /\ ~response.result.raised
                /\ response.result.value = Quantize(response.amount * r.rate[2], r.rate[1])

\* ---------------------------------------------------------------- C13
IsSplitCall == response.op \in {"create_bill", "submit_bill_splits"}

Accepted == IsSplitCall /\ ~response.result.raised

\* the claims of the line item the last call named
StoredClaims == bills[response.bill].line_items[response.line_item].person_claims

\* the sum of the split_values the batch provides
ProvidedTotal ==
    SumSeq([i \in DOMAIN response.person_splits |->
               IF response.person_splits[i].split_value = <<>> THEN 0
               ELSE response.person_splits[i].split_value[1]])

\* r is n/d rounded to whole cents, a tie going to the even cent; d > 0
IsQuotientQuantized(n, d, r) ==
    /\ r % Epsilon = 0
    /\ 2 * Abs(r * d - n) <= Epsilon * d
    /\ 2 * Abs(r * d - n) = Epsilon * d => (r \div Epsilon) % 2 = 0

SharesOf(n) == [i \in 1..n |-> response.person_splits[i].split_value]

AmountsOf(n) == [i \in 1..n |-> StoredClaims[i].calculated_amount]

\* C13: after an accepted create_bill or submit_bill_splits the line item has
\* one claim per entry of the batch, in order; an entry without split_value
\* has no calculated_amount; under split_type value the amount is split_value
\* rounded to cents; under shares it is value * split_value / total shares
\* rounded to cents, and 0 when the total is 0.  30.00 by shares 1,1,1 is
\* 10.00 each, by shares 1,2 it is 10.00 and 20.00.
C13_ClaimAmounts ==
    Accepted =>
        /\ Len(StoredClaims) = Len(response.person_splits)
        /\ \A i \in DOMAIN response.person_splits :
              LET split == response.person_splits[i].split_value
                  claim == StoredClaims[i]
              IN  /\ claim.person = response.person_splits[i].person_id
                  /\ split = <<>> => claim.calculated_amount = <<>>
                  /\ split # <<>> =>
                        /\ claim.calculated_amount # <<>>
                        /\ response.split_type = "value" =>
                              IsQuotientQuantized(split[1], 1, claim.calculated_amount[1])
                        /\ (response.split_type = "shares" /\ ProvidedTotal > 0) =>
                              IsQuotientQuantized(response.value * split[1], ProvidedTotal,
                                                  claim.calculated_amount[1])
                        /\ (response.split_type = "shares" /\ ProvidedTotal = 0) =>
                              claim.calculated_amount[1] = 0
        /\ (response.split_type = "shares" /\ response.value = 6000) =>
              /\ (Len(response.person_splits) = 3 /\ SharesOf(3) = <<<<200>>, <<200>>, <<200>>>>)
                    => AmountsOf(3) = <<<<2000>>, <<2000>>, <<2000>>>>
              /\ (Len(response.person_splits) = 2 /\ SharesOf(2) = <<<<200>>, <<400>>>>)
                    => AmountsOf(2) = <<<<2000>>, <<4000>>>>

\* 0.055 was split by shares 1, 2 and none: the amounts are 0.02, 0.04 and none
C13_Witness ==
    /\ Accepted
    /\ response.split_type = "shares"
    /\ response.value = 11
    /\ Len(response.person_splits) = 3
    /\ SharesOf(3) = <<<<200>>, <<400>>, <<>>>>
    /\ AmountsOf(3) = <<<<4>>, <<8>>, <<>>>>

\* ---------------------------------------------------------------- C14
\* what the claims of a line item add up to
ClaimedTotal(line_item) ==
    SumSeq([i \in DOMAIN line_item.person_claims |-> AmountOrZero(line_item.person_claims[i])])

\* C14: a create_bill or submit_bill_splits call whose batch for a line item
\* of split_type value provides split_values summing to more than the line
\* item's value is refused, and no stored line item of split_type value has
\* claims that add up to more than its value.
C14_ValueSplitsValidated ==
    /\ (IsSplitCall /\ response.split_type = "value" /\ ProvidedTotal > response.value)
          => response.result.raised
    /\ \A b \in DOMAIN bills : \A li \in DOMAIN bills[b].line_items :
          bills[b].line_items[li].split_type = "value" =>
              ClaimedTotal(bills[b].line_items[li]) <= bills[b].line_items[li].value

\* ---------------------------------------------------------------- C15
IsSubmitted == response.op = "submit_bill_splits" /\ ~response.result.raised

\* C15: after an accepted submit_bill_splits the claims of the line item are
\* those worked out from that batch alone, whatever claims it had before.
C15_ReplaceNotMerge ==
    IsSubmitted =>
        StoredClaims = create_person_claims(<<>>, response.value, response.split_type,
                                            response.person_splits).value

\* a submission of fewer entries than the line item had claims
C15_Witness ==
    /\ IsSubmitted
    /\ response.deleted > Len(response.person_splits)
    /\ response.person_splits # <<>>
    /\ Len(StoredClaims) = Len(response.person_splits)

\* ---------------------------------------------------------------- C17
\* C17: no line item has two claims of the same person.
C17_OneClaimPerPerson ==
    \A b \in DOMAIN bills : \A li \in DOMAIN bills[b].line_items :
        \A i, j \in DOMAIN bills[b].line_items[li].person_claims :
            bills[b].line_items[li].person_claims[i].person
                = bills[b].line_items[li].person_claims[j].person => i = j

\* a batch naming person 1 twice was refused for a line item that keeps its
\* claims of three people
C17_Witness ==
    /\ response.op = "submit_bill_splits"
    /\ response.result = Raised("IntegrityError")
    /\ \E i, j \in DOMAIN response.person_splits :
          i # j /\ response.person_splits[i].person_id = response.person_splits[j].person_id
    /\ Len(StoredClaims) = 3

\* ---------------------------------------------------------------- C16
IsSimplified == response.op = "simplify_tab" /\ ~response.result.raised

\* C16: after a simplify_tab call that succeeded the tab's settlements are the
\* transactions it got from simp_tab, one row each with the same payer, payee
\* and amount in the settlement currency of the call, and nothing else; no
\* other call touches the settlements.
C16_FullReplace ==
    /\ [](IsSimplified =>
            /\ Len(settlements) = Len(response.result.value)
            /\ \A i \in DOMAIN settlements :
                  /\ settlements[i].from_person = response.result.value[i].payer_id
                  /\ settlements[i].to_person = response.result.value[i].payee_id
                  /\ settlements[i].amount = response.result.value[i].amount
                  /\ settlements[i].currency = response.settlement_currency)
    /\ [][(response'.op # "simplify_tab" \/ response'.result.raised)
            => settlements' = settlements]_vars

\* a simplify_tab call replaced the settlements of an earlier call by others
C16_Witness ==
    /\ IsSimplified
    /\ response.deleted # <<>>
    /\ settlements # <<>>
    /\ \A i \in DOMAIN response.deleted : \A j \in DOMAIN settlements :
          response.deleted[i] # settlements[j]

\* ---------------------------------------------------------------- C18
Emitted == transactions'[Len(transactions')]

\* C18: an iteration of simp appends one transaction to the list; its payee
\* holds the largest balance of the working map, its payer the smallest, and
\* its amount is the smaller of the payee's balance and the payer's debt.
\* Balances A +30, B -10, C -20 give "C pays A 20", then "B pays A 10".
C18_GreedyStep ==
    /\ [][(pc = "loop" /\ transactions' # transactions) =>
            /\ transactions' = Append(transactions, Emitted)
            /\ Emitted.payee_id \in Keys(bals)
            /\ Emitted.payer_id \in Keys(bals)
            /\ \A k \in Keys(bals) :
                  /\ Get(bals, k) <= Get(bals, Emitted.payee_id)
                  /\ Get(bals, k) >= Get(bals, Emitted.payer_id)
            /\ Emitted.amount <= Get(bals, Emitted.payee_id)
            /\ Emitted.amount <= -Get(bals, Emitted.payer_id)
            /\ Emitted.amount \in {Get(bals, Emitted.payee_id), -Get(bals, Emitted.payer_id)}]_vars
    /\ []((pc = "done" /\ balances = ExampleBalances) =>
            transactions = <<Transaction(3, 1, 4000), Transaction(2, 1, 2000)>>)

\* simp has returned on the balances A +30, B -10, C -20
C18_Witness ==
    /\ pc = "done"
    /\ balances = ExampleBalances
    /\ Len(transactions) = 2
    /\ bals = <<>>

\* ---------------------------------------------------------------- C19
\* the tab without its bills that are not archived and have no payer
WithoutPayerless == SelectSeq(bills, LAMBDA b : b.status = "archived" \/ b.paid_by # <<>>)

\* C19: the result of calculate_tab_balances, balances or failure, is the one
\* it gives for the tab without its payerless bills, for every settlement
\* currency: such a bill changes nobody's balance and is never converted.
C19_PayerlessBillSkipped ==
    \A cur \in OptionalCurrencies :
        Computed(cur) = calculate_tab_balances(WithoutPayerless, rates, now, cur)

\* balances were returned for a tab with a payerless bill whose positive claim
\* could not even be converted
C19_Witness ==
    /\ IsCalculated
    /\ ~response.result.raised
    /\ response.result.value # <<>>
    /\ \E bill \in BillSet : \E claim \in ClaimsIn(bill) :
          /\ bill.status # "archived"
          /\ bill.paid_by = <<>>
          /\ claim.calculated_amount # <<>>
          /\ claim.calculated_amount[1] > 0
          /\ bill.currency # settlement_currency
          /\ NoRateRow(bill.currency, settlement_currency)

\* ---------------------------------------------------------------- C20
\* what a claim adds to the net of person p, in currency cur or as it is
ClaimEffect(bill, claim, p, cur) ==
    IF ~Charged(bill, claim) THEN 0
    ELSE LET amount == IF cur # <<>> /\ bill.currency # cur[1]
                       THEN convert_amount(rates, now, claim.calculated_amount[1],
                                           bill.currency, cur[1], <<>>).value
                       ELSE claim.calculated_amount[1]
         IN  (IF p = bill.paid_by[1] THEN amount ELSE 0) - (IF p = claim.person THEN amount ELSE 0)

LineItemEffect(bill, line_item, p, cur) ==
    SumSeq([c \in DOMAIN line_item.person_claims |->
               ClaimEffect(bill, line_item.person_claims[c], p, cur)])

BillEffect(bill, p, cur) ==
    SumSeq([l \in DOMAIN bill.line_items |-> LineItemEffect(bill, bill.line_items[l], p, cur)])

\* what others owe p less what p owes others
NetOf(p, cur) == SumSeq([b \in DOMAIN bills |-> BillEffect(bills[b], p, cur)])

PositionOf(p) == CHOOSE i \in DOMAIN balances : balances[i].person_id = p

\* C21: in every iteration of simp the payee is, of the people holding the
\* largest working balance, the one that comes first in the input list, and
\* the payer is, of the people holding the smallest, the one that comes first,
\* whatever their ids; and the list simp returns is the one a second run on
\* the same input returns.
C21_TieBreakByInsertionOrder ==
    /\ [][(pc = "loop" /\ Len(transactions') > Len(transactions)) =>
            /\ \A q \in Keys(bals) : Get(bals, q) <= Get(bals, Emitted.payee_id)
            /\ \A q \in Keys(bals) :
                  Get(bals, q) = Get(bals, Emitted.payee_id) =>
                      PositionOf(Emitted.payee_id) <= PositionOf(q)
            /\ \A q \in Keys(bals) : Get(bals, q) >= Get(bals, Emitted.payer_id)
            /\ \A q \in Keys(bals) :
                  Get(bals, q) = Get(bals, Emitted.payer_id) =>
                      PositionOf(Emitted.payer_id) <= PositionOf(q)]_vars
    /\ [](pc = "done" =>
            simp(balances) = [raised |-> FALSE, diverges |-> FALSE, value |-> transactions])

\* simp returned, its first transaction paying the person of the higher id of
\* two that shared the largest balance, from the person of the higher id of
\* two that shared the smallest
C21_Witness ==
    /\ pc = "done"
    /\ transactions # <<>>
    /\ \E i, j \in DOMAIN balances :
          /\ i < j
          /\ balances[i].person_id = transactions[1].payee_id
          /\ balances[j].person_id < balances[i].person_id
          /\ balances[j].balance = balances[i].balance
    /\ \E i, j \in DOMAIN balances :
          /\ i < j
          /\ balances[i].person_id = transactions[1].payer_id
          /\ balances[j].person_id < balances[i].person_id
          /\ balances[j].balance = balances[i].balance

\* ---------------------------------------------------------------- C22
IsTotalled == response.op = "get_tab_person_totals"

\* what a claim is worth in the settlement currency, nothing when no rate row
\* links the two currencies
WorthOf(bill, claim) ==
    IF bill.currency = settlement_currency THEN AmountOrZero(claim)
    ELSE IF NoRateRow(bill.currency, settlement_currency) THEN 0
    ELSE convert_amount(rates, now, AmountOrZero(claim), bill.currency, settlement_currency,
                        <<>>).value

ExpectedTotal(p) ==
    SumSeq([b \in DOMAIN bills |->
        SumSeq([l \in DOMAIN bills[b].line_items |->
            SumSeq([c \in DOMAIN bills[b].line_items[l].person_claims |->
                IF bills[b].line_items[l].person_claims[c].person = p
                THEN WorthOf(bills[b], bills[b].line_items[l].person_claims[c])
                ELSE 0])])])

Claimants == {claim.person : claim \in UNION {ClaimsIn(bill) : bill \in BillSet}}

\* C22: get_tab_person_totals always answers, with one total per person who
\* has a claim, a claim whose conversion finds no rate adding nothing to it;
\* with a charged claim in that position simplify_tab fails with
\* "Currency conversion failed" and calculate_tab_balances raises
\* ExchangeRateNotFoundError instead of skipping the claim.
C22_SkipInTotalsFailInSimplify ==
    /\ IsTotalled =>
          /\ ~response.result.raised
          /\ {response.result.value[i].person_id : i \in DOMAIN response.result.value} = Claimants
          /\ \A i, j \in DOMAIN response.result.value :
                response.result.value[i].person_id = response.result.value[j].person_id => i = j
          /\ \A i \in DOMAIN response.result.value :
                response.result.value[i].total = ExpectedTotal(response.result.value[i].person_id)
    /\ MissingRate(<<settlement_currency>>) =>
          /\ ~get_tab_person_totals(bills, rates, now, settlement_currency).raised
          /\ SimplifyResult(bills, rates, now, settlement_currency)
                = Raised("Currency conversion failed")
          /\ Computed(<<settlement_currency>>) = ExchangeRateNotFoundError
          /\ response.op = "simplify_tab" => response.result = Raised("Currency conversion failed")

\* totals came back for a tab that simplify_tab refuses: a person has a
\* positive total although a positive claim of theirs could not be converted
C22_Witness ==
    /\ IsTotalled
    /\ MissingRate(<<settlement_currency>>)
    /\ \E i \in DOMAIN response.result.value :
          /\ response.result.value[i].total > 0
          /\ \E bill \in BillSet : \E claim \in ClaimsIn(bill) :
                /\ Charged(bill, claim)
                /\ claim.person = response.result.value[i].person_id
                /\ bill.currency # settlement_currency
                /\ NoRateRow(bill.currency, settlement_currency)

\* ---------------------------------------------------------------- C23
Succeeded(r) == requests[r].pc = "done" /\ ~requests[r].result.raised

\* C23: once the simplify_tab requests served together have all completed, at
\* least one of them with success, the tab's settlements are the rows of one
\* run, those of the transactions one of the requests computed: never the
\* rows of two runs side by side.
C23_SimplifySerialized ==
    (/\ \A r \in DOMAIN requests : ~Open(r)
     /\ \E r \in DOMAIN requests : Succeeded(r)) =>
        \E r \in DOMAIN requests :
            /\ Succeeded(r)
            /\ settlements = CreateSettlements(<<>>, requests[r].result.value,
                                                requests[r].settlement_currency)

\* ---------------------------------------------------------------- C24
SimplifyErrors == {Raised("Currency conversion failed"), Raised("Tab has no bills to simplify")}

\* C24: a simplify_tab call that fails, for a missing exchange rate or for a
\* tab without non-archived bills, leaves the tab's settlements exactly as
\* they were: none is added and none of the earlier ones is lost; and the call
\* does fail in those two cases.
C24_FailureLeavesSettlements ==
    /\ [][(response'.op = "simplify_tab" /\ response'.result.raised) =>
            /\ settlements' = settlements
            /\ response'.result \in SimplifyErrors]_vars
    /\ [](response.op = "simplify_tab" =>
            /\ ExcludeArchived(bills) = <<>> =>
                  response.result = Raised("Tab has no bills to simplify")
            /\ MissingRate(<<settlement_currency>>) =>
                  response.result = Raised("Currency conversion failed"))

\* simplify_tab failed on a missing rate while the tab held settlements of
\* an earlier call
C24_Witness ==
    /\ response.op = "simplify_tab"
    /\ response.result = Raised("Currency conversion failed")
    /\ settlements # <<>>
    /\ MissingRate(<<settlement_currency>>)

\* ---------------------------------------------------------------- C25
\* C25: for a zero-sum balance list, at every point of simp a person owed
\* money keeps a working balance >= 0 and a person owing money one <= 0, every
\* transaction is paid by a person whose original balance was negative to a
\* different person whose original balance was positive, and nobody is the
\* payer of one transaction and the payee of another.
C25_SignPreserved ==
    (ZeroSumInput /\ pc \in {"loop", "done"}) =>
        /\ \A p \in Keys(bals) :
              /\ Original(p) > 0 => Get(bals, p) >= 0
              /\ Original(p) < 0 => Get(bals, p) <= 0
        /\ \A i \in DOMAIN transactions :
              /\ Original(transactions[i].payee_id) > 0
              /\ Original(transactions[i].payer_id) < 0
              /\ transactions[i].payer_id # transactions[i].payee_id
        /\ \A i, j \in DOMAIN transactions :
              transactions[i].payer_id # transactions[j].payee_id

\* ---------------------------------------------------------------- C26
\* every iteration of simp from the dict d on settles a creditor owed money
\* with a debtor owing money and shrinks the dict, down to the empty dict
RECURSIVE EveryIterationRemoves(_)
EveryIterationRemoves(d) ==
    IF d = <<>> THEN TRUE
    ELSE /\ Get(d, max_creditor(d)) > 0
         /\ Get(d, max_debtor(d)) < 0
         /\ ~Negligible(d, max_creditor(d), max_debtor(d))
         /\ ~Iterate(d, <<>>).raised
         /\ Len(Iterate(d, <<>>).bals) < Len(d)
         /\ EveryIterationRemoves(Iterate(d, <<>>).bals)

\* C26: whenever calculate_tab_balances succeeds for the tab and a
\* settlement currency, its balances are whole cents and sum to zero, every
\* iteration simp makes on them pairs a positive creditor with a negative
\* debtor and removes one of them until none is left, and simp_tab returns.
C26_ComposedTermination ==
    /\ \A cur \in OptionalCurrencies :
          ~Computed(cur).raised =>
              /\ \A i \in DOMAIN Computed(cur).value :
                    Computed(cur).value[i].balance % Epsilon = 0
              /\ SumBalances(Computed(cur).value) = 0
              /\ EveryIterationRemoves(BuildBals(Computed(cur).value))
              /\ ~simp_tab(bills, rates, now, cur).raised
              /\ ~simp_tab(bills, rates, now, cur).diverges
    /\ (response.op = "simp_tab" /\ ~response.result.raised) => ~response.result.diverges

\* simp_tab returned two transactions for a tab of three people with a
\* converted bill
C26_Witness ==
    /\ response.op = "simp_tab"
    /\ ~response.result.raised
    /\ ~response.result.diverges
    /\ Len(response.result.value) = 2
    /\ \E bill \in BillSet : \E claim \in ClaimsIn(bill) :
          Charged(bill, claim) /\ bill.currency # settlement_currency

====
